---- MODULE Spec2Model ----
(***************************************************************************)
(* Model of the basketball scripts of ml-experiments:                      *)
(*   scripts/basketball/create_slugs.py   create_slug (rich rule set)      *)
(*   scripts/basketball/get_all_teams.py  create_slug (simple rule set)    *)
(*   scripts/basketball/scraper.py        scrape_team_gamelogs,            *)
(*                                        scrape_multiple_teams            *)
(* A Python str is a sequence of one-character strings.                    *)
(***************************************************************************)
EXTENDS Integers, Sequences, FiniteSets, TLC

VARIABLES school_name, paren_slug, slug, slug_again, teams_slug, called,
          row, found,
          school_slugs, i, all_data, csv_files, returned_df, log, pc

vars == <<school_name, paren_slug, slug, slug_again, teams_slug, called,
          row, found,
          school_slugs, i, all_data, csv_files, returned_df, log, pc>>

slug_vars == <<school_name, paren_slug, slug, slug_again, teams_slug, called,
               row, found>>

scrape_vars == <<school_slugs, i, all_data, csv_files, returned_df, log, pc>>

(***************************************************************************)
(* Bounds of the model.                                                    *)
(***************************************************************************)
MaxTokens == 3

MaxSlugs == 3

CmpLen == 2

(***************************************************************************)
(* Character classes, as the regular expressions and str methods of the    *)
(* two scripts see them.                                                   *)
(***************************************************************************)
UpperSeq == <<"A","B","C","D","E","F","G","H","I","J","K","L","M",
              "N","O","P","Q","R","S","T","U","V","W","X","Y","Z">>

LowerSeq == <<"a","b","c","d","e","f","g","h","i","j","k","l","m",
              "n","o","p","q","r","s","t","u","v","w","x","y","z">>

Upper == {UpperSeq[k] : k \in 1..26}

Lowercase == {LowerSeq[k] : k \in 1..26}

Digits == {"0","1","2","3","4","5","6","7","8","9"}

\* \s of the re module (two representatives: the space and the tab)
Whitespace == {" ", "\t"}

\* \w of the re module: letters, digits and the underscore
WordChars == Upper \cup Lowercase \cup Digits \cup {"_"}

\* [a-z0-9-]
SlugChars == Lowercase \cup Digits \cup {"-"}

Punct == {"(", ")", "'", "&", ".", "-", "_"}

AllChars == WordChars \cup Whitespace \cup Punct

\* str.lower() on one character
lower_char(c) ==
  IF c \in Upper THEN LowerSeq[CHOOSE k \in 1..26 : UpperSeq[k] = c] ELSE c

\* str.lower()
lower(s) == [k \in 1..Len(s) |-> lower_char(s[k])]

(***************************************************************************)
(* Helpers of the regular-expression engine: leftmost match, greedy        *)
(* repetition, non-overlapping substitution from left to right.            *)
(***************************************************************************)
\* end of the greedy \s* started at position k: first index >= k that is
\* past the end or not whitespace
RECURSIVE skip_ws(_, _)
skip_ws(s, k) ==
  IF k <= Len(s) /\ s[k] \in Whitespace THEN skip_ws(s, k + 1) ELSE k

\* \([A-Z]{2}\) matches at position k
code_at(s, k) ==
  /\ k >= 1
  /\ k + 3 <= Len(s)
  /\ s[k] = "("
  /\ s[k + 1] \in Upper
  /\ s[k + 2] \in Upper
  /\ s[k + 3] = ")"

\* re.search(r'\(([A-Z]{2})\)', slug): positions of the matches; the match
\* object is the leftmost one, None when the set is empty
paren_match(s) == {k \in 1..Len(s) : code_at(s, k)}

\* paren_match.group(1) of the leftmost match
state_code(s) ==
  LET k == CHOOSE m \in paren_match(s) : \A n \in paren_match(s) : m <= n
  IN  <<s[k + 1], s[k + 2]>>

\* the replacement f'-{state_code.lower()}'
state_repl_nohyphen(code) == lower(code)

state_repl(code) == <<"-">> \o lower(code)

\* re.sub(r'\s*\([A-Z]{2}\)', repl, slug), scanning from position k
RECURSIVE sub_code_first(_, _, _)
sub_code_first(s, k, repl) ==
  IF k > Len(s) THEN <<>>
  ELSE LET j == skip_ws(s, k)
       IN  IF code_at(s, j)
           THEN repl \o SubSeq(s, j + 4, Len(s))
           ELSE <<s[k]>> \o sub_code_first(s, k + 1, repl)

RECURSIVE sub_code(_, _, _)
sub_code(s, k, repl) ==
  IF k > Len(s) THEN <<>>
  ELSE LET j == skip_ws(s, k)
       IN  IF code_at(s, j)
           THEN repl \o sub_code(s, j + 4, repl)
           ELSE <<s[k]>> \o sub_code(s, k + 1, repl)

\* index of the first ")" at or after position k, 0 when there is none
RECURSIVE find_close(_, _)
find_close(s, k) ==
  IF k > Len(s) THEN 0
  ELSE IF s[k] = ")" THEN k ELSE find_close(s, k + 1)

\* re.sub(r'\s*\([^)]*\)', '', slug), scanning from position k
RECURSIVE sub_paren(_, _)
sub_paren(s, k) ==
  IF k > Len(s) THEN <<>>
  ELSE LET j == skip_ws(s, k)
           c == IF j <= Len(s) /\ s[j] = "(" THEN find_close(s, j + 1) ELSE 0
       IN  IF c > 0
           THEN sub_paren(s, c + 1)
           ELSE <<s[k]>> \o sub_paren(s, k + 1)

\* lines 39-46: the parenthetical step of create_slug
paren_step(s) ==
  IF paren_match(s) # {}
  THEN sub_code(s, 1, state_repl(state_code(s)))
  ELSE sub_paren(s, 1)

\* str.replace(old, new): non-overlapping occurrences, left to right
RECURSIVE str_replace_from(_, _, _, _)
str_replace_from(s, k, old, new) ==
  IF k > Len(s) THEN <<>>
  ELSE IF k + Len(old) - 1 <= Len(s) /\ SubSeq(s, k, k + Len(old) - 1) = old
       THEN new \o str_replace_from(s, k + Len(old), old, new)
       ELSE <<s[k]>> \o str_replace_from(s, k + 1, old, new)

str_replace(s, old, new) == str_replace_from(s, 1, old, new)

\* re.sub(r'\s+', '-', slug)
RECURSIVE sub_spaces_from(_, _)
sub_spaces_from(s, k) ==
  IF k > Len(s) THEN <<>>
  ELSE IF s[k] \in Whitespace
       THEN <<"-">> \o sub_spaces_from(s, skip_ws(s, k))
       ELSE <<s[k]>> \o sub_spaces_from(s, k + 1)

sub_spaces(s) == sub_spaces_from(s, 1)

\* re.sub(r'[^a-z0-9-]', '', slug)
keep_slug_char_nodigits(c) == c \in Lowercase \cup {"-"}

keep_slug_char(c) == c \in SlugChars

sub_special(s) == SelectSeq(s, keep_slug_char)

\* re.sub(r'-+', '-', slug)
RECURSIVE sub_hyphens_from(_, _)
sub_hyphens_from(s, k) ==
  IF k > Len(s) THEN <<>>
  ELSE IF s[k] = "-" /\ k > 1 /\ s[k - 1] = "-"
       THEN sub_hyphens_from(s, k + 1)
       ELSE <<s[k]>> \o sub_hyphens_from(s, k + 1)

sub_hyphens(s) == sub_hyphens_from(s, 1)

\* str.strip('-')
RECURSIVE lstrip_hyphen(_)
lstrip_hyphen(s) ==
  IF s # <<>> /\ Head(s) = "-" THEN lstrip_hyphen(Tail(s)) ELSE s

RECURSIVE rstrip_hyphen(_)
rstrip_hyphen(s) ==
  IF s # <<>> /\ s[Len(s)] = "-"
  THEN rstrip_hyphen(SubSeq(s, 1, Len(s) - 1))
  ELSE s

strip_hyphen_left(s) == lstrip_hyphen(s)

strip_hyphen_none(s) == s

strip_hyphen(s) == rstrip_hyphen(lstrip_hyphen(s))

(***************************************************************************)
(* create_slugs.py: create_slug, lines 32-73, one LET per statement.       *)
(***************************************************************************)
create_slug(name) ==
  LET s1 == paren_step(name)
      s2 == lower(s1)
      s3 == str_replace(s2, <<"'", "s">>, <<"s">>)
      s4 == str_replace(s3, <<"'">>, <<>>)
      s5 == str_replace(s4, <<" ", "&", " ">>, <<"-">>)
      s6 == str_replace(s5, <<".">>, <<>>)
      s7 == sub_spaces(s6)
      s8 == sub_special(s7)
      s9 == sub_hyphens(s8)
  IN  strip_hyphen(s9)

(***************************************************************************)
(* get_all_teams.py: create_slug, lines 13-20.                             *)
(***************************************************************************)
\* re.sub(r'[^\w\s-]', '', slug)
keep_teams_char_ascii(c) == c \in Lowercase \cup Digits \cup Whitespace \cup {"-"}

keep_teams_char(c) == c \in WordChars \cup Whitespace \cup {"-"}

teams_create_slug(name) ==
  LET t1 == lower(name)
      t2 == SelectSeq(t1, keep_teams_char)
      t3 == sub_spaces(t2)
      t4 == sub_hyphens(t3)
  IN  strip_hyphen(t4)

(***************************************************************************)
(* Inputs of the slug functions.  A name is a concatenation of at most     *)
(* MaxTokens tokens; a token is one character of NameChars or one          *)
(* parenthesized span.  The names of the docstring (create_slugs.py lines  *)
(* 14-19) and of the comment at line 55 are inputs too.                    *)
(***************************************************************************)
NameCharSeq == <<"a", "s", "x", "A", "B", "1", " ", "\t",
                "(", ")", "'", "&", ".", "-", "_">>

ParenTokenSeq == << <<"(", "A", "B", ")">>, <<"(", "B", "A", ")">>,
                    <<"(", "x", ")">> >>

TokenSeq == [k \in 1..Len(NameCharSeq) |-> <<NameCharSeq[k]>>] \o ParenTokenSeq

Tokens == { TokenSeq[k] : k \in 1..Len(TokenSeq) }

RECURSIVE Flatten(_)
Flatten(ts) == IF ts = <<>> THEN <<>> ELSE Head(ts) \o Flatten(Tail(ts))

TokenNames(n) == { Flatten(ts) : ts \in UNION { [1..k -> Tokens] : k \in 0..n } }

IowaState == <<"I","o","w","a"," ","S","t","a","t","e">>

AlbanyNY == <<"A","l","b","a","n","y"," ","(","N","Y",")">>

ArkansasPineBluff == <<"A","r","k","a","n","s","a","s","-","P","i","n","e"," ","B","l","u","f","f">>

UCIrvine == <<"U","C"," ","I","r","v","i","n","e">>

SaintMarysCA == <<"S","a","i","n","t"," ","M","a","r","y","'","s"," ","(","C","A",")">>

MiamiFL == <<"M","i","a","m","i"," ","(","F","L",")">>

WilliamAndMary == <<"W","i","l","l","i","a","m"," ","&"," ","M","a","r","y">>

DocNames == {IowaState, AlbanyNY, ArkansasPineBluff, UCIrvine, SaintMarysCA,
             MiamiFL, WilliamAndMary}

Names == TokenNames(MaxTokens) \cup DocNames

\* The 'School' column both scripts apply their create_slug to: one row for
\* every sequence of CmpLen entries, an entry being a token or nothing.
Entries == TokenSeq \o << <<>> >>

RECURSIVE Power(_, _)
Power(b, e) == IF e = 0 THEN 1 ELSE b * Power(b, e - 1)

NumRows == Power(Len(Entries), CmpLen)

\* the School value of row r, 0 <= r < NumRows
School(r) ==
  Flatten([d \in 1..CmpLen |->
             Entries[((r \div Power(Len(Entries), d - 1)) % Len(Entries)) + 1]])

(***************************************************************************)
(* scraper.py.  scrape_team_gamelogs is modelled by its explicit control   *)
(* flow: the except clause of lines 56-58, the test of lines 97-100 and    *)
(* the normal end at line 142.  The calls into BeautifulSoup, pandas and   *)
(* os between lines 102 and 140 are taken to complete.                     *)
(***************************************************************************)
\* default arguments of scrape_multiple_teams
year == 2026

delay == 2

\* slugs the batch is called with
SlugPool == {"iowa-state", "duke"}

SlugLists == UNION { [1..n -> SlugPool] : n \in 0..MaxSlugs }

\* what the web site does to one request: the request raises a
\* RequestException (lines 52-58), the page has no game-log table
\* (lines 82-100), or the table is found and parsed (lines 102-142)
Outcomes == {"request_error", "no_table", "ok"}

None == [kind |-> "None"]

DataFrame(school_slug, season) ==
  [kind |-> "DataFrame", school_slug |-> school_slug, season |-> season]

\* f"{save_path}/{school_slug}_{year}_gamelogs.csv"
filename(school_slug, season) == <<school_slug, season>>

\* scrape_team_gamelogs: the value returned and the files written
scrape_team_gamelogs(school_slug, season, outcome) ==
  IF outcome = "ok"
  THEN [df |-> DataFrame(school_slug, season),
        written |-> {filename(school_slug, season)}]
  ELSE [df |-> None, written |-> {}]

\* lines 173-174: if df is not None: all_data[slug] = df
store_always(data, school_slug, df) ==
  [k \in DOMAIN data \cup {school_slug} |->
     IF k = school_slug THEN df ELSE data[k]]

store(data, school_slug, df) ==
  IF df # None
  THEN [k \in DOMAIN data \cup {school_slug} |->
          IF k = school_slug THEN df ELSE data[k]]
  ELSE data

\* line 177: if i < len(school_slugs)
should_wait_inclusive(k, n) == k <= n

should_wait(k, n) == k < n

RequestEvent(school_slug, outcome) ==
  [kind |-> "request", slug |-> school_slug, outcome |-> outcome, seconds |-> 0]

WaitEvent(seconds) ==
  [kind |-> "wait", slug |-> "", outcome |-> "", seconds |-> seconds]

(***************************************************************************)
(* State machine of the slug scripts: each script applies its create_slug  *)
(* to the school name; create_slug is applied once more to its own result. *)
(***************************************************************************)
SlugIdle ==
  /\ school_name = <<>>
  /\ paren_slug = <<>>
  /\ slug = <<>>
  /\ slug_again = <<>>
  /\ teams_slug = <<>>
  /\ called = {}
  /\ row = 0
  /\ found = {}

ScrapeIdle ==
  /\ school_slugs = <<>>
  /\ i = 0
  /\ all_data = <<>>
  /\ csv_files = {}
  /\ returned_df = <<>>
  /\ log = <<>>
  /\ pc = "idle"

SlugInit ==
  /\ school_name \in Names
  /\ paren_slug = <<>>
  /\ slug = <<>>
  /\ slug_again = <<>>
  /\ teams_slug = <<>>
  /\ called = {}
  /\ row = 0
  /\ found = {}
  /\ ScrapeIdle

\* create_slugs.py: df['slug'] = df['School'].apply(create_slug)
CallCreateSlug ==
  /\ "create_slug" \notin called
  /\ paren_slug' = paren_step(school_name)
  /\ slug' = create_slug(school_name)
  /\ called' = called \cup {"create_slug"}
  /\ UNCHANGED <<school_name, slug_again, teams_slug, row, found>>
  /\ UNCHANGED scrape_vars

\* create_slug applied to a slug it produced
CallCreateSlugAgain ==
  /\ "create_slug" \in called
  /\ "again" \notin called
  /\ slug_again' = create_slug(slug)
  /\ called' = called \cup {"again"}
  /\ UNCHANGED <<school_name, paren_slug, slug, teams_slug, row, found>>
  /\ UNCHANGED scrape_vars

SlugNext == CallCreateSlug \/ CallCreateSlugAgain

SpecSlug == SlugInit /\ [][SlugNext]_vars

(***************************************************************************)
(* The two scripts on the same 'School' column, row by row:                *)
(* create_slugs.py line 97 and get_all_teams.py line 65.  found records    *)
(* the kinds of name on which the two slugs of a row differed.             *)
(***************************************************************************)
HasParen(s) == \E k \in 1..Len(s) : s[k] \in {"(", ")"}

HasApostrophe(s) == \E k \in 1..Len(s) : s[k] = "'"

HasAmpersand(s) == \E k \in 1..Len(s) : s[k] = "&"

\* the one kind of character, of the three, that the name contains
Kinds(s) ==
  IF HasParen(s) /\ ~HasApostrophe(s) /\ ~HasAmpersand(s) THEN {"parenthesis"}
  ELSE IF ~HasParen(s) /\ HasApostrophe(s) /\ ~HasAmpersand(s) THEN {"apostrophe"}
  ELSE IF ~HasParen(s) /\ ~HasApostrophe(s) /\ HasAmpersand(s) THEN {"ampersand"}
  ELSE {}

CompareInit ==
  /\ SlugIdle
  /\ ScrapeIdle

ApplyRow ==
  /\ row < NumRows
  /\ school_name' = School(row)
  /\ paren_slug' = paren_step(School(row))
  /\ slug' = create_slug(School(row))
  /\ teams_slug' = teams_create_slug(School(row))
  /\ found' = IF create_slug(School(row)) # teams_create_slug(School(row))
              THEN found \cup Kinds(School(row))
              ELSE found
  /\ row' = row + 1
  /\ UNCHANGED <<slug_again, called>>
  /\ UNCHANGED scrape_vars

CompareNext == ApplyRow

SpecCompare == CompareInit /\ [][CompareNext]_vars

(***************************************************************************)
(* State machine of scrape_multiple_teams (scraper.py lines 145-181).      *)
(***************************************************************************)
ScrapeInit ==
  /\ school_slugs \in SlugLists
  /\ i = 0
  /\ all_data = <<>>
  /\ csv_files = {}
  /\ returned_df = <<>>
  /\ log = <<>>
  /\ pc = "start"
  /\ SlugIdle

\* the for statement: the next element, or the end of the loop
Advance(k) ==
  IF k < Len(school_slugs)
  THEN i' = k + 1 /\ pc' = "scrape"
  ELSE i' = k /\ pc' = "return"

\* line 164 and the first evaluation of the for statement
Enter ==
  /\ pc = "start"
  /\ all_data' = <<>>
  /\ Advance(0)
  /\ UNCHANGED <<school_slugs, csv_files, returned_df, log>>
  /\ UNCHANGED slug_vars

\* lines 166-177: one call of scrape_team_gamelogs and the test of the wait
Scrape ==
  /\ pc = "scrape"
  /\ \E outcome \in Outcomes :
       LET r == scrape_team_gamelogs(school_slugs[i], year, outcome)
       IN  /\ returned_df' = Append(returned_df, r.df)
           /\ csv_files' = csv_files \cup r.written
           /\ all_data' = store(all_data, school_slugs[i], r.df)
           /\ log' = Append(log, RequestEvent(school_slugs[i], outcome))
  /\ IF should_wait(i, Len(school_slugs))
     THEN i' = i /\ pc' = "wait"
     ELSE Advance(i)
  /\ UNCHANGED school_slugs
  /\ UNCHANGED slug_vars

\* lines 178-179: time.sleep(delay)
Wait ==
  /\ pc = "wait"
  /\ log' = Append(log, WaitEvent(delay))
  /\ Advance(i)
  /\ UNCHANGED <<school_slugs, all_data, csv_files, returned_df>>
  /\ UNCHANGED slug_vars

\* line 181: return all_data
Return ==
  /\ pc = "return"
  /\ pc' = "returned"
  /\ UNCHANGED <<school_slugs, i, all_data, csv_files, returned_df, log>>
  /\ UNCHANGED slug_vars

ScrapeNext == Enter \/ Scrape \/ Wait \/ Return

SpecScrape == ScrapeInit /\ [][ScrapeNext]_vars

\* the interpreter runs the call to its end
LiveScrape == SpecScrape /\ WF_vars(ScrapeNext)

(***************************************************************************)
(* Properties of create_slug (create_slugs.py).                            *)
(***************************************************************************)
Count(s, c) == Cardinality({k \in 1..Len(s) : s[k] = c})

Occurrences(s, sub) ==
  Cardinality({k \in 1..(Len(s) - Len(sub) + 1) :
                 SubSeq(s, k, k + Len(sub) - 1) = sub})

\* a slug as the data model defines it
ValidSlug(s) ==
  /\ \A k \in 1..Len(s) : s[k] \in SlugChars
  /\ s # <<>> => s[1] # "-" /\ s[Len(s)] # "-"
  /\ \A k \in 1..(Len(s) - 1) : ~(s[k] = "-" /\ s[k + 1] = "-")

\* C1: for every input the result of create_slug has only characters of
\* [a-z0-9-], neither starts nor ends with a hyphen, and has no two
\* consecutive hyphens.
C1_SlugWellFormed == "create_slug" \in called => ValidSlug(slug)

C1_Witness ==
  /\ "create_slug" \in called
  /\ slug # <<>>
  /\ school_name[1] = "-"
  /\ \E k \in 1..Len(school_name) : school_name[k] \notin SlugChars

\* the name ends in whitespace and a parenthesized pair of uppercase letters
TailCode(s) ==
  /\ Len(s) >= 5
  /\ code_at(s, Len(s) - 3)
  /\ s[Len(s) - 4] \in Whitespace

RECURSIVE back_ws(_, _)
back_ws(s, k) == IF k >= 1 /\ s[k] \in Whitespace THEN back_ws(s, k - 1) ELSE k

\* the part of the name before the whitespace-plus-parenthetical span
Before(s) == SubSeq(s, 1, back_ws(s, Len(s) - 4))

NoParenthetical(s) ==
  ~ \E a \in 1..Len(s) : \E b \in (a + 1)..Len(s) : s[a] = "(" /\ s[b] = ")"

C2Case(s) == TailCode(s) /\ NoParenthetical(Before(s))

CodeLower(s) == lower(<<s[Len(s) - 2], s[Len(s) - 1]>>)

C3_AlbanyDropped ==
  ("create_slug" \in called /\ school_name = AlbanyNY) =>
     slug = <<"a","l","b","a","n","y">>

\* a parenthesized span p..q whose content is not exactly two uppercase
\* letters
Descriptive(s, p, q) ==
  /\ p < q
  /\ s[p] = "("
  /\ s[q] = ")"
  /\ \A k \in (p + 1)..(q - 1) : s[k] \notin {"(", ")"}
  /\ ~(q = p + 3 /\ s[p + 1] \in Upper /\ s[p + 2] \in Upper)

\* C4: every parenthesized span whose content is not exactly two uppercase
\* letters is removed, whatever other parentheticals the name contains: a
\* letter or digit that the name has only inside such a span does not appear
\* in the result.
C4_DescriptiveRemoved ==
  "create_slug" \in called =>
     \A p \in 1..Len(school_name) : \A q \in 1..Len(school_name) :
        Descriptive(school_name, p, q) =>
           \A k \in (p + 1)..(q - 1) :
              ( /\ school_name[k] \in WordChars \ {"_"}
                /\ \A m \in 1..Len(school_name) :
                      (m < p \/ m > q) =>
                         lower_char(school_name[m]) # lower_char(school_name[k]) )
              => Count(slug, lower_char(school_name[k])) = 0

\* number of spans the parenthetical step rewrote or deleted: every match of
\* either pattern holds exactly one ")"
Transformed == Count(school_name, ")") - Count(paren_slug, ")")

\* C5 as stated: the parenthetical step applies at most one transformation
\* per input; of two or more parenthesized spans at most one is rewritten or
\* deleted.
C5_AtMostOne == "create_slug" \in called => Transformed <= 1

\* C5 as amended: only the first two-uppercase-letter parenthetical is
\* inspected, and its letters are the ones used, but the step transforms
\* every span its pattern matches: every two-uppercase-letter parenthetical
\* is rewritten to a hyphen and the first one's letters lowercased; when
\* there is none, every parenthesized span is deleted.
C5_EveryMatchTransformed ==
  "create_slug" \in called =>
     IF paren_match(school_name) # {}
     THEN /\ Transformed = Cardinality(paren_match(school_name))
          /\ paren_match(paren_slug) = {}
          /\ Occurrences(paren_slug, state_repl(state_code(school_name)))
               >= Cardinality(paren_match(school_name))
     ELSE NoParenthetical(paren_slug)

C5_Witness ==
  /\ "create_slug" \in called
  /\ Cardinality(paren_match(school_name)) >= 2
  /\ \E a, b \in paren_match(school_name) :
        school_name[a + 1] # school_name[b + 1]
  /\ Transformed = 2

\* C6: create_slug returns a valid slug unchanged, and applying it to its
\* own result changes nothing.
C6_Idempotent ==
  /\ ("create_slug" \in called /\ ValidSlug(school_name)) => slug = school_name
  /\ "again" \in called => slug_again = slug

C6_Witness ==
  /\ "again" \in called
  /\ ValidSlug(school_name)
  /\ Count(school_name, "-") > 0
  /\ Count(school_name, "1") > 0
  /\ slug_again = school_name

WhitespaceOnly(s) == \A k \in 1..Len(s) : s[k] \in Whitespace

\* C7: every string yields a string, and the empty string and every
\* whitespace-only string yield the empty string.
C7_Total ==
  "create_slug" \in called =>
     /\ slug \in Seq(AllChars)
     /\ WhitespaceOnly(school_name) => slug = <<>>

C7_Witness ==
  /\ "create_slug" \in called
  /\ Len(school_name) >= 2
  /\ WhitespaceOnly(school_name)
  /\ slug = <<>>

(***************************************************************************)
(* The two create_slug functions compared.                                 *)
(***************************************************************************)
\* C8: for each of the three kinds of character (parenthesis, apostrophe,
\* ampersand) there is a name with that kind and neither of the other two
\* on which the two create_slug functions return different slugs: once both
\* functions have been applied to every row, each kind has been found.
C8_Disagree ==
  row = NumRows => found = {"parenthesis", "apostrophe", "ampersand"}

C8_Witness ==
  /\ row = NumRows
  /\ "apostrophe" \in found
  /\ "ampersand" \in found
  /\ "parenthesis" \in found

(***************************************************************************)
(* Properties of scrape_multiple_teams.                                    *)
(***************************************************************************)
Requests == {k \in 1..Len(log) : log[k].kind = "request"}

Waits == {k \in 1..Len(log) : log[k].kind = "wait"}

\* C9, the part that holds in every state: requests and waits alternate,
\* starting with a request; the k-th request is for the k-th slug of the
\* list; every wait lasts the fixed delay; and once the call has returned
\* for a list of n >= 1 slugs there were n requests and n - 1 waits, so no
\* wait follows the last request.
C9_Alternation ==
  /\ \A k \in 1..Len(log) :
        log[k].kind = IF k % 2 = 1 THEN "request" ELSE "wait"
  /\ \A k \in 1..Len(log) :
        k % 2 = 1 => /\ (k + 1) \div 2 <= Len(school_slugs)
                     /\ log[k].slug = school_slugs[(k + 1) \div 2]
  /\ \A k \in Waits : log[k].seconds = delay
  /\ (pc = "returned" /\ Len(school_slugs) >= 1) =>
        /\ Cardinality(Requests) = Len(school_slugs)
        /\ Cardinality(Waits) = Len(school_slugs) - 1
        /\ log[Len(log)].kind = "request"

====
